---------------------------- MODULE Spec2Model ----------------------------
(***************************************************************************)
(* Tokio Marine policy converter: vehicle segmentation, field extraction,  *)
(* monetary normalisation, text acquisition, the record-building loops and *)
(* the export of app.py and src/services/pdf_converter.py, and the /upload *)
(* route of src/routes/upload.py.                                          *)
(*                                                                         *)
(* A text is a sequence of lexical units.  A unit is either one character  *)
(* ("a": a non-blank character, " ": a blank) or one of the literal        *)
(* phrases the regular expressions of the program look for, written in its *)
(* canonical form:                                                         *)
(*   "D1","D2"  Descricao do Item - <n> - Produto Auto Frota   (n = 1, 2)  *)
(*   "D-"       Descricao do Item - - Produto Auto Frota   (no number)     *)
(*   "I1"       Item - 1 - Produto Auto Frota  (not preceded by Descricao) *)
(*   "END"      Assistencia 24 Horas                                       *)
(*   "CEP+"     CEP de Pernoite do Veiculo: 12345-678                      *)
(*   "CEP-"     CEP de Pernoite do Veiculo:   (no well-formed code after)  *)
(*   "FAB+"     Fabricante: FORD        (a brand of the allow-list)        *)
(*   "PLA+"     Placa: ABC1234                                             *)
(*   "APO+"     Nr Apolice 123                                             *)
(***************************************************************************)
EXTENDS Integers, Sequences, FiniteSets, TLC

\* longest policy text handed to the segmenter
MaxTextLen == 3
\* longest text handed to extract_field
MaxFieldLen == 4
\* longest text handed to extract_money
MaxMoneyLen == 6
\* most pages of a PDF
MaxPages == 2
\* most tokens EasyOCR recognises on a page
MaxTokens == 2

VARIABLES
    path,               \* which caller runs: "function", "dashboard", "http",
                        \* or the function or route a specification runs
    text,               \* the text handed to the caller
    pc,                 \* position in the running code
    vehicles,           \* extract_vehicle_sections: the list being built
    used,               \* history: the strategies that appended to vehicles
    all_vehicles_data,  \* main / parse_tokio_text: the vehicle records
    candidates,         \* the candidate list of a field lookup
    result,             \* what app.py's extractor gave
    conv_result,        \* what pdf_converter.py's extract_field gave
    config,             \* the OCR backend the imports found: "tesseract",
                        \* "easyocr" or "none"
    npages,             \* the number of pages of the PDF
    page,               \* pages handled so far by the running loop
    all_text,           \* the OCR loop's list of page texts
    tmp_file,           \* the temporary copy: "none", "exists" or "removed"
    native_text,        \* history: the text when the PyPDF2 step ended
    trace,              \* history: the library calls made, in order
    dados_header,       \* main: the header record
    report,             \* main: what the user is told ("none" before)
    workbook,           \* the exported workbook: its sheets and its name
    requests,           \* /upload: each request's input, position and response
    disk                \* /upload: the server's files, path -> whose bytes

segState == <<vehicles, used, all_vehicles_data>>
fieldState == <<candidates, result, conv_result>>
acqState == <<config, npages, page, all_text, tmp_file>>
histState == <<native_text, trace>>
outState == <<dados_header, report, workbook>>
httpState == <<requests, disk>>
vars == <<path, text, pc, segState, fieldState, acqState, histState, outState, httpState>>

-----------------------------------------------------------------------------
(* Strings *)

\* characters: "a" is any non-blank one; the blanks are the space, the tab
\* ("TAB") and the line break ("NL")
Blanks == {" ", "TAB", "NL"}
Chars == {"a", "1", "2", ".", ","} \cup Blanks
Phrases == {"D1", "D2", "D-", "I1", "END", "CEP+", "CEP-", "FAB+", "PLA+",
            "APO+"}
Alphabet == {"a", " "} \cup Phrases

\* what \s matches and str.strip() removes
IsSpace(t) == t \in Blanks

\* number of characters of a unit in its canonical form
TokLen(t) ==
    CASE t \in Chars -> 1
      [] t \in {"D1", "D2"} -> 42
      [] t = "D-" -> 40
      [] t = "I1" -> 29
      [] t = "END" -> 20
      [] t = "CEP+" -> 37
      [] t = "CEP-" -> 27
      [] t = "FAB+" -> 16
      [] t = "PLA+" -> 14
      [] t = "APO+" -> 14

RECURSIVE StrLen(_)
StrLen(s) == IF s = <<>> THEN 0 ELSE TokLen(Head(s)) + StrLen(Tail(s))

RECURSIVE LStrip(_)
LStrip(s) == IF s # <<>> /\ IsSpace(Head(s)) THEN LStrip(Tail(s)) ELSE s

RECURSIVE RStrip(_)
RStrip(s) ==
    IF s # <<>> /\ IsSpace(s[Len(s)]) THEN RStrip(SubSeq(s, 1, Len(s) - 1)) ELSE s

\* str.strip()
Strip(s) == RStrip(LStrip(s))

\* str(n) for the positions that occur
Str(n) == <<(<<"1", "2", "3", "4", "5", "6", "7", "8", "9">>)[n]>>

RECURSIVE SeqsUpTo(_, _)
SeqsUpTo(S, n) ==
    IF n = 0 THEN {<<>>}
    ELSE LET shorter == SeqsUpTo(S, n - 1)
         IN shorter \cup {Append(s, t) : s \in {x \in shorter : Len(x) = n - 1}, t \in S}

Texts == SeqsUpTo(Alphabet, MaxTextLen)

-----------------------------------------------------------------------------
(* re.findall of a pattern  START (.*?) (?= STOP | \Z)  with re.DOTALL *)

\* least index >= from of a unit of S, 0 when there is none
FirstIn(s, S, from) ==
    IF \E i \in from..Len(s) : s[i] \in S
    THEN CHOOSE i \in from..Len(s) :
            s[i] \in S /\ \A k \in from..(i - 1) : s[k] \notin S
    ELSE 0

\* the matches, in order: each start unit with the text after it up to the
\* next stop unit or the end of the text; the scan resumes where a match ended
RECURSIVE FindAll(_, _, _, _)
FindAll(s, Starts, Stops, from) ==
    LET i == FirstIn(s, Starts, from) IN
    IF i = 0 THEN <<>>
    ELSE LET j == FirstIn(s, Stops, i + 1)
             e == IF j = 0 THEN Len(s) + 1 ELSE j
         IN <<[head |-> s[i], body |-> SubSeq(s, i + 1, e - 1)]>>
                \o FindAll(s, Starts, Stops, e)


-----------------------------------------------------------------------------
(* extract_vehicle_sections, strategy 1: the three header patterns *)

\* the (\d+) group of a numbered header
HeaderNumber(t) == IF t = "D2" THEN <<"2">> ELSE <<"1">>

\* patterns_descricao[0]: two groups, so re.findall yields (number, content)
Pattern1Sections(t) ==
    LET m == FindAll(t, {"D1", "D2"}, {"D1", "D2", "END"}, 1)
    IN [k \in 1..Len(m) |-> <<HeaderNumber(m[k].head), m[k].body>>]

\* patterns_descricao[1]: one group, so re.findall yields the content string
Pattern2Sections(t) ==
    LET m == FindAll(t, {"D-"}, {"D-", "D1", "D2", "END"}, 1)
    IN [k \in 1..Len(m) |-> <<m[k].body>>]

\* patterns_descricao[2]: two groups.  The phrase also ends D1 and D2, but
\* the pattern is only tried on a text where pattern 1 found nothing.
Pattern3Sections(t) ==
    LET m == FindAll(t, {"I1"}, {"I1", "END"}, 1)
    IN [k \in 1..Len(m) |-> <<HeaderNumber(m[k].head), m[k].body>>]

\* a findall result is a tuple (two groups) or a str (one group)
IsTuple(section) == Len(section) = 2

\* len(section): the tuple's arity, or the string's number of characters
PyLen(section) == IF IsTuple(section) THEN 2 ELSE StrLen(section[1])

\* section[i] for i = 0, 1 (here 1, 2): a group of the tuple, or a character
\* of the string (read only when the string has two characters)
PyItem(section, i) ==
    IF IsTuple(section) THEN section[i] ELSE <<section[1][i]>>

\* SpanOf with the position used for every section (the header number dropped)
SpanOfPositional(section, j) ==
    [item |-> Str(j), content |-> Strip(section[Len(section)])]

\* the body of the loop over sections; j is the 1-based position (j + 1 in
\* the code, whose j counts from 0)
SpanOf(section, j) ==
    IF PyLen(section) = 2 /\ PyItem(section, 1) # <<>>
    THEN [item |-> Strip(PyItem(section, 1)), content |-> Strip(PyItem(section, 2))]
    ELSE IF PyLen(section) = 2
    THEN [item |-> Str(j),
          content |-> Strip(IF PyItem(section, 2) # <<>>
                            THEN PyItem(section, 2) ELSE PyItem(section, 1))]
    ELSE [item |-> Str(j), content |-> Strip(section[1])]

\* the first pattern of the list with a match (the loop breaks there)
DescricaoSections(t) ==
    IF Pattern1Sections(t) # <<>> THEN Pattern1Sections(t)
    ELSE IF Pattern2Sections(t) # <<>> THEN Pattern2Sections(t)
    ELSE Pattern3Sections(t)

DescricaoSpans(t) ==
    LET sections == DescricaoSections(t)
    IN [j \in 1..Len(sections) |-> SpanOf(sections[j], j)]

(* strategies 2, 3 and 4 *)

CepSections(t) == FindAll(t, {"CEP+"}, {"CEP+", "CEP-"}, 1)

\* f"CEP de Pernoite do Veiculo: {cep} {content}".strip()
CepSpans(t) ==
    LET m == CepSections(t)
    IN [i \in 1..Len(m) |->
          [item |-> Str(i), content |-> Strip(<<"CEP+", " ">> \o m[i].body)]]

FabSections(t) == FindAll(t, {"FAB+"}, {"FAB+"}, 1)

FabSpans(t) ==
    LET m == FabSections(t)
    IN [i \in 1..Len(m) |->
          [item |-> Str(i), content |-> Strip(<<"FAB+", " ">> \o m[i].body)]]

PlacaSections(t) == FindAll(t, {"PLA+"}, {"PLA+"}, 1)

PlacaSpans(t) ==
    LET m == PlacaSections(t)
    IN [i \in 1..Len(m) |->
          [item |-> Str(i), content |-> Strip(<<"PLA+", " ">> \o m[i].body)]]

\* the list after each strategy's block: strategy 1 always runs, the others
\* run under "if not vehicles"
AfterStrategy1(v, t) == v \o DescricaoSpans(t)
\* AfterStrategy2 without its "if not vehicles"
AfterStrategy2Unguarded(v, t) == v \o CepSpans(t)
AfterStrategy2(v, t) == IF v = <<>> THEN v \o CepSpans(t) ELSE v
AfterStrategy3(v, t) == IF v = <<>> THEN v \o FabSpans(t) ELSE v
\* AfterStrategy4 that falls back to the whole text as one vehicle
AfterStrategy4WholeText(v, t) ==
    IF v = <<>> /\ PlacaSpans(t) = <<>> THEN <<[item |-> <<"1">>, content |-> Strip(t)]>>
    ELSE IF v = <<>> THEN PlacaSpans(t) ELSE v
AfterStrategy4(v, t) == IF v = <<>> THEN v \o PlacaSpans(t) ELSE v

-----------------------------------------------------------------------------
\* Field extraction.  A candidate pattern is [lit, grp]: lit is the label or
\* value shape it looks for and grp the form of the regular expression:
\*   "after"  the label, then colons and blanks, then one group holding the
\*            rest of the line, possibly nothing  (as in  r"Chassi[:\s]*(.*)")
\*   "lazy"   the label, then colons and blanks, then one group of at least
\*            one character other than a line break, up to the end of the
\*            line  (as in  r"Apolice[:\s]*([^\n\r]+?)(?=\s*Negocio|$)")
\*   "self"   one group around the value shape  (as in  r"(FORD|FIAT)")
\*   "none"   the label or shape, no group
\*   "money"  the label, then colons and blanks, then one group holding a
\*            run of digits, periods and commas

NoMatch == [found |-> FALSE]

\* the indices of the units of S in t
Occurrences(t, S) == {i \in 1..Len(t) : t[i] \in S}

\* the first index after i that holds no blank (what follows  [:\s]*  there)
AfterBlanks(s, i) ==
    LET rest == {k \in (i + 1)..Len(s) : ~IsSpace(s[k])}
    IN IF rest = {} THEN Len(s) + 1
       ELSE CHOOSE k \in rest : \A m \in rest : k <= m

MoneyChars == {"1", "2", ".", ","}

\* the longest run of digits, periods and commas that starts at index b
RECURSIVE MoneyRun(_, _)
MoneyRun(s, b) ==
    IF b <= Len(s) /\ s[b] \in MoneyChars
    THEN <<s[b]>> \o MoneyRun(s, b + 1) ELSE <<>>

\* re.search(pattern, text, re.IGNORECASE | re.MULTILINE): the leftmost match,
\* with its groups
Search(p, s) ==
    LET i == FirstIn(s, {p.lit}, 1) IN
    IF i = 0 THEN NoMatch
    ELSE IF p.grp = "after"
    THEN LET b == AfterBlanks(s, i)
             nl == FirstIn(s, {"NL"}, b)
             e == IF nl = 0 THEN Len(s) + 1 ELSE nl
         IN [found |-> TRUE, full |-> SubSeq(s, i, e - 1),
             groups |-> <<SubSeq(s, b, e - 1)>>]
    ELSE IF p.grp = "lazy"
    THEN LET b == AfterBlanks(s, i)
             nl == FirstIn(s, {"NL"}, b)
             e == IF nl = 0 THEN Len(s) + 1 ELSE nl
             \* nothing but blanks follows: the group takes back the last
             \* blank of the run that is no line break
             back == {q \in (i + 1)..Len(s) : s[q] # "NL"}
             q == CHOOSE k \in back : \A m \in back : m <= k
         IN IF b <= Len(s)
            THEN [found |-> TRUE, full |-> SubSeq(s, i, e - 1),
                  groups |-> <<SubSeq(s, b, e - 1)>>]
            ELSE IF back # {}
            THEN [found |-> TRUE, full |-> SubSeq(s, i, q), groups |-> <<<<s[q]>>>>]
            ELSE NoMatch
    ELSE IF p.grp = "money"
    THEN LET ok == {k \in Occurrences(s, {p.lit}) : MoneyRun(s, AfterBlanks(s, k)) # <<>>}
         IN IF ok = {} THEN NoMatch
            ELSE LET k == CHOOSE k \in ok : \A m \in ok : k <= m
                     g == MoneyRun(s, AfterBlanks(s, k))
                 IN [found |-> TRUE,
                     full |-> SubSeq(s, k, AfterBlanks(s, k) + Len(g) - 1),
                     groups |-> <<g>>]
    ELSE IF p.grp = "self"
    THEN [found |-> TRUE, full |-> <<s[i]>>, groups |-> <<<<s[i]>>>>]
    ELSE [found |-> TRUE, full |-> <<s[i]>>, groups |-> <<>>]

\* re.search(pattern, text, re.IGNORECASE): as Search, but the  $  of a "lazy"
\* pattern is the end of the text (or the place before its last line break),
\* so the group has to reach it without crossing a line break
SearchNoMultiline(p, s) ==
    IF p.grp # "lazy" THEN Search(p, s)
    ELSE LET e == IF s # <<>> /\ s[Len(s)] = "NL" THEN Len(s) ELSE Len(s) + 1
             \* where a group may start after the label at i
             starts(i) == {g \in (i + 1)..(e - 1) :
                             /\ g <= AfterBlanks(s, i)
                             /\ \A k \in g..(e - 1) : s[k] # "NL"}
             ok == {i \in Occurrences(s, {p.lit}) : starts(i) # {}}
         IN IF ok = {} THEN NoMatch
            ELSE LET i == CHOOSE k \in ok : \A m \in ok : k <= m
                     g == CHOOSE k \in starts(i) : \A m \in starts(i) : m <= k
                 IN [found |-> TRUE, full |-> SubSeq(s, i, e - 1),
                     groups |-> <<SubSeq(s, g, e - 1)>>]

\* re.sub(r'\s+', ' ', value)
RECURSIVE Collapse(_)
Collapse(s) ==
    IF s = <<>> THEN <<>>
    ELSE IF IsSpace(Head(s))
    THEN <<" ">> \o Collapse(LStrip(s))
    ELSE <<Head(s)>> \o Collapse(Tail(s))

\* what a call gives: a value, or an exception that leaves the function
Returned(v) == [raised |-> FALSE, value |-> v]
Raised(e) == [raised |-> TRUE, error |-> e]

\* extract_field that goes on to the next candidate when a value is empty
RECURSIVE extract_field_skipping_empty(_, _)
extract_field_skipping_empty(patterns, s) ==
    IF patterns = <<>> THEN Returned(<<>>)
    ELSE LET m == Search(Head(patterns), s)
             value == IF ~m.found THEN <<>>
                      ELSE IF m.groups # <<>> THEN Collapse(Strip(m.groups[1]))
                      ELSE Collapse(Strip(m.full))
         IN IF value # <<>> THEN Returned(value)
            ELSE extract_field_skipping_empty(Tail(patterns), s)

\* app.py extract_field
RECURSIVE extract_field(_, _)
extract_field(patterns, s) ==
    IF patterns = <<>> THEN Returned(<<>>)
    ELSE LET m == Search(Head(patterns), s)
         IN IF m.found
            THEN IF m.groups # <<>>
                 THEN Returned(Collapse(Strip(m.groups[1])))
                 ELSE Returned(Collapse(Strip(m.full)))
            ELSE extract_field(Tail(patterns), s)

\* src/services/pdf_converter.py extract_field: match.group(1) raises
\* IndexError ("no such group") when the pattern has no group
RECURSIVE converter_extract_field(_, _)
converter_extract_field(patterns, s) ==
    IF patterns = <<>> THEN Returned(<<>>)
    ELSE LET m == SearchNoMultiline(Head(patterns), s)
         IN IF m.found
            THEN IF m.groups # <<>>
                 THEN Returned(Strip(m.groups[1]))
                 ELSE Raised("IndexError")
            ELSE converter_extract_field(Tail(patterns), s)

-----------------------------------------------------------------------------
(* Monetary fields: parse_vehicle_data.extract_money *)

\* str.replace(old, new), both one character long or new empty
RECURSIVE Replace(_, _, _)
Replace(s, old, new) ==
    IF s = <<>> THEN <<>>
    ELSE (IF Head(s) = old THEN new ELSE <<Head(s)>>) \o Replace(Tail(s), old, new)

Digits == {"1", "2"}
DigitValue(d) == IF d = "1" THEN 1 ELSE 2

\* float(v) succeeds on a string of digits and periods exactly when it has
\* at least one digit and at most one period
ParsesAsFloat(v) ==
    /\ \E i \in 1..Len(v) : v[i] \in Digits
    /\ Cardinality({i \in 1..Len(v) : v[i] = "."}) <= 1
    /\ \A i \in 1..Len(v) : v[i] \in Digits \cup {"."}

RECURSIVE DigitsValue(_)
DigitsValue(v) ==
    IF v = <<>> THEN 0
    ELSE 10 * DigitsValue(SubSeq(v, 1, Len(v) - 1)) + DigitValue(v[Len(v)])

\* what extract_money returns is a str or a float
PyStr(v) == [kind |-> "str", str |-> v]

\* the number float(v) gives, as mant / 10^scale
FloatOf(v) ==
    LET dot == FirstIn(v, {"."}, 1)
    IN [kind |-> "float",
        mant |-> DigitsValue(Replace(v, ".", <<>>)),
        scale |-> IF dot = 0 THEN 0 ELSE Len(v) - dot]

\* value = match.group(1).replace('.', '').replace(',', '.')
Normalize(captured) == Replace(Replace(captured, ".", <<>>), ",", <<".">>)

\* match.group(1) raises IndexError when the pattern has no group; the
\* try/except only covers float()
RECURSIVE extract_money(_, _)
extract_money(patterns, s) ==
    IF patterns = <<>> THEN Returned(PyStr(<<>>))
    ELSE LET m == Search(Head(patterns), s)
         IN IF m.found
            THEN IF m.groups = <<>> THEN Raised("IndexError")
                 ELSE LET value == Normalize(m.groups[1])
                      IN IF ParsesAsFloat(value)
                         THEN Returned(FloatOf(value))
                         ELSE Returned(PyStr(value))
            ELSE extract_money(Tail(patterns), s)

-----------------------------------------------------------------------------
(* Records *)

\* extract_simple: result if result else ""
extract_simple(patterns, s) == extract_field(patterns, s).value

\* The keys of parse_vehicle_data's dict whose labels are units of a policy
\* text (the dict has 35 keys, all built in the same way, none conditional).
\* A value stands for the match's position: it is the unit at which the first
\* matching candidate matches, and empty when none does.
VehicleFieldNames == {"Item", "Fabricante", "Placa"}

parse_vehicle_data(vehicle_content, item_num) ==
    [f \in VehicleFieldNames |->
        CASE f = "Item" -> item_num
          [] f = "Fabricante" ->
                extract_simple(<<[lit |-> "FAB+", grp |-> "self"]>>, vehicle_content)
          [] f = "Placa" ->
                extract_simple(<<[lit |-> "PLA+", grp |-> "self"]>>, vehicle_content)]

\* the keys of parse_tokio_text's dados_veiculo whose labels are units, and
\* the key with the fixed value
TokioFieldNames == {"PLACA", "TIPO DE SEGURO"}

\* parse_tokio_text: one dict from the whole argument, one DataFrame row
parse_tokio_text(s) ==
    <<[f \in TokioFieldNames |->
        CASE f = "PLACA" ->
                converter_extract_field(<<[lit |-> "PLA+", grp |-> "self"]>>, s).value
          [] f = "TIPO DE SEGURO" -> <<"a">>]>>

\* the key of parse_header_data's dict whose label is a unit (the dict has 8
\* keys, all built by extract_field on the whole text)
HeaderFieldNames == {"Apolice"}

parse_header_data(s) ==
    [f \in HeaderFieldNames |->
        extract_field(<<[lit |-> "APO+", grp |-> "self"]>>, s).value]

\* the columns of the summary sheet that are keys of the model's records
ResumoColumns == {"Item", "Fabricante", "Placa"}

\* create_excel_file without its "if all_vehicles_data"
create_excel_file_unguarded(header, data) ==
    [sheet \in {"Dados Gerais", "Todos os Veiculos", "Resumo Veiculos"} |->
        IF sheet = "Dados Gerais" THEN <<header>> ELSE data]

\* create_excel_file: the workbook as sheet name -> rows; the vehicle sheet
\* and the summary sheet are written under "if all_vehicles_data"
create_excel_file(header, data) ==
    IF data # <<>>
    THEN [sheet \in {"Dados Gerais", "Todos os Veiculos", "Resumo Veiculos"} |->
            CASE sheet = "Dados Gerais" -> <<header>>
              [] sheet = "Todos os Veiculos" -> data
              [] sheet = "Resumo Veiculos" ->
                    [i \in 1..Len(data) |->
                        [col \in ResumoColumns |->
                            IF col \in DOMAIN data[i] THEN data[i][col] ELSE <<>>]]]
    ELSE [sheet \in {"Dados Gerais"} |-> <<header>>]

\* apolice_numero = dados_header.get('Apólice', ''), "sem_numero" when that
\* is empty or blank; nome_arquivo = f"tokio_marine_apolice_{...}.xlsx"
nome_arquivo(header) ==
    LET apolice_numero == header["Apolice"]
    IN <<"tokio_marine_apolice_">>
         \o (IF apolice_numero = <<>> \/ Strip(apolice_numero) = <<>>
             THEN <<"sem_numero">> ELSE apolice_numero)
         \o <<".xlsx">>

\* upload_file hands parse_tokio_text the path save_file returned
FilePath == <<"a">>

-----------------------------------------------------------------------------
(* The callers *)

NoResult == [raised |-> FALSE, value |-> <<"none">>]

\* an entry of the call history: a library call on a page, or (page 0) a call
\* on the whole file or text
Call(op, p) == [op |-> op, page |-> p]

\* HasText with the test dropped
HasTextAlways(t) == TRUE

\* main: if text.strip()
HasText(t) == Strip(t) # <<>>

segIdle == vehicles = <<>> /\ used = {} /\ all_vehicles_data = <<>>
fieldIdle == candidates = <<>> /\ result = NoResult /\ conv_result = NoResult
acqIdle ==
    config = "none" /\ npages = 0 /\ page = 0 /\ all_text = <<>> /\ tmp_file = "none"
histIdle == native_text = <<"pending">> /\ trace = <<>>
\* no workbook written yet
NoWorkbook == [sheets |-> <<>>, name |-> <<>>]
outIdle == dados_header = <<>> /\ report = "none" /\ workbook = NoWorkbook
httpIdle == requests = <<>> /\ disk = <<>>

\* the text reaches extract_vehicle_sections directly ("function"), main's
\* "Processar PDF" branch ("dashboard") or the /upload route ("http")
Init ==
    /\ path \in {"function", "dashboard", "http"}
    /\ text \in Texts
    /\ pc = CASE path = "function" -> "strategy1"
              [] path = "dashboard" -> "main"
              [] path = "http" -> "upload"
    /\ segIdle
    /\ fieldIdle
    /\ acqIdle
    /\ histIdle
    /\ outIdle
    /\ httpIdle

\* main: if text.strip(): dados_header = parse_header_data(text) ...
\*       else: st.error(...)
MainStart ==
    /\ pc = "main"
    /\ IF HasText(text)
       THEN /\ dados_header' = parse_header_data(text)
            /\ trace' = Append(trace, Call("parse_header_data", 0))
            /\ pc' = "strategy1"
            /\ UNCHANGED report
       ELSE /\ report' = "error"
            /\ pc' = "failed"
            /\ UNCHANGED <<dados_header, trace>>
    /\ UNCHANGED <<httpState, native_text, workbook, acqState, path, text, segState, fieldState>>

Strategy1 ==
    /\ pc = "strategy1"
    /\ vehicles' = AfterStrategy1(vehicles, text)
    /\ used' = IF vehicles' # vehicles THEN used \cup {1} ELSE used
    /\ pc' = "strategy2"
    /\ trace' = Append(trace, Call("extract_vehicle_sections", 0))
    /\ UNCHANGED <<httpState, native_text, outState, acqState, path, text, all_vehicles_data,
                   fieldState>>

Strategy2 ==
    /\ pc = "strategy2"
    /\ vehicles' = AfterStrategy2(vehicles, text)
    /\ used' = IF vehicles' # vehicles THEN used \cup {2} ELSE used
    /\ pc' = "strategy3"
    /\ UNCHANGED <<httpState, histState, outState, acqState, path, text, all_vehicles_data, fieldState>>

Strategy3 ==
    /\ pc = "strategy3"
    /\ vehicles' = AfterStrategy3(vehicles, text)
    /\ used' = IF vehicles' # vehicles THEN used \cup {3} ELSE used
    /\ pc' = "strategy4"
    /\ UNCHANGED <<httpState, histState, outState, acqState, path, text, all_vehicles_data, fieldState>>

Strategy4 ==
    /\ pc = "strategy4"
    /\ vehicles' = AfterStrategy4(vehicles, text)
    /\ used' = IF vehicles' # vehicles THEN used \cup {4} ELSE used
    /\ pc' = "return"
    /\ UNCHANGED <<httpState, histState, outState, acqState, path, text, all_vehicles_data, fieldState>>

\* return vehicles; in main: if vehicles: all_vehicles_data = [] ...
\* and, with no vehicle, the else branch of "if vehicles and
\* all_vehicles_data": st.warning(...)
Return ==
    /\ pc = "return"
    /\ pc' = IF path = "dashboard" /\ vehicles # <<>> THEN "vehicle_loop" ELSE "done"
    /\ report' = IF path = "dashboard" /\ vehicles = <<>> THEN "warning" ELSE report
    /\ UNCHANGED <<httpState, histState, dados_header, workbook, acqState, path, text,
                   segState, fieldState>>

\* one turn of main's loop over vehicles
ParseVehicle ==
    /\ pc = "vehicle_loop"
    /\ Len(all_vehicles_data) < Len(vehicles)
    /\ LET vehicle == vehicles[Len(all_vehicles_data) + 1]
       IN all_vehicles_data' =
            Append(all_vehicles_data, parse_vehicle_data(vehicle.content, vehicle.item))
    /\ UNCHANGED <<httpState, histState, outState, acqState, path, text, pc, vehicles, used, fieldState>>

LoopDone ==
    /\ pc = "vehicle_loop"
    /\ Len(all_vehicles_data) = Len(vehicles)
    /\ pc' = "export"
    /\ UNCHANGED <<httpState, histState, outState, acqState, path, text, segState, fieldState>>

\* if vehicles and all_vehicles_data: create_excel_file, the download button
\* and the final st.success
Export ==
    /\ pc = "export"
    /\ workbook' = [sheets |-> create_excel_file(dados_header, all_vehicles_data),
                    name |-> nome_arquivo(dados_header)]
    /\ report' = "success"
    /\ pc' = "done"
    /\ trace' = Append(trace, Call("create_excel_file", 0))
    /\ UNCHANGED <<httpState, native_text, dados_header, acqState, path, text, segState, fieldState>>

\* the functions called on their own, on the text and on what segmentation
\* gave for it: parse_header_data(text), parse_vehicle_data for every span,
\* create_excel_file(dados_header, all_vehicles_data)
ApplyFunctions ==
    /\ path = "function"
    /\ pc = "done"
    /\ dados_header' = parse_header_data(text)
    /\ all_vehicles_data' =
          [i \in 1..Len(vehicles) |->
              parse_vehicle_data(vehicles[i].content, vehicles[i].item)]
    /\ workbook' = [sheets |-> create_excel_file(dados_header', all_vehicles_data'),
                    name |-> nome_arquivo(dados_header')]
    /\ pc' = "exported"
    /\ UNCHANGED <<httpState, histState, report, acqState, path, text, vehicles, used,
                   fieldState>>

\* upload_file: dados_header, df = parse_tokio_text(file_path)
ParseTokioText ==
    /\ pc = "upload"
    /\ all_vehicles_data' = parse_tokio_text(FilePath)
    /\ pc' = "done"
    /\ UNCHANGED <<httpState, histState, outState, acqState, path, text, vehicles, used, fieldState>>

Next ==
    \/ MainStart
    \/ Strategy1 \/ Strategy2 \/ Strategy3 \/ Strategy4 \/ Return
    \/ ParseVehicle \/ LoopDone \/ Export
    \/ ApplyFunctions
    \/ ParseTokioText

Spec == Init /\ [][Next]_vars

-----------------------------------------------------------------------------
(* The field extractors called on their own *)

FieldAlphabet == {"L", "V", "a", " ", "TAB", "NL"}
FieldTexts == SeqsUpTo(FieldAlphabet, MaxFieldLen)

FieldPatterns ==
    { [lit |-> "L", grp |-> "after"], [lit |-> "L", grp |-> "lazy"],
      [lit |-> "L", grp |-> "none"],
      [lit |-> "V", grp |-> "self"], [lit |-> "V", grp |-> "none"] }

\* candidate lists as the schema has them: one pattern, or a pattern and a
\* fallback
CandidateLists ==
    {<<>>} \cup {<<p>> : p \in FieldPatterns}
           \cup {<<p, q>> : p \in FieldPatterns, q \in FieldPatterns}

InitField ==
    /\ path = "extract_field"
    /\ text \in FieldTexts
    /\ candidates \in CandidateLists
    /\ pc = "app"
    /\ result = NoResult /\ conv_result = NoResult
    /\ segIdle
    /\ acqIdle
    /\ histIdle
    /\ outIdle
    /\ httpIdle

CallExtractField ==
    /\ pc = "app"
    /\ result' = extract_field(candidates, text)
    /\ pc' = "converter"
    /\ UNCHANGED <<httpState, histState, outState, acqState, path, text, candidates, conv_result, segState>>

CallConverterExtractField ==
    /\ pc = "converter"
    /\ conv_result' = converter_extract_field(candidates, text)
    /\ pc' = "done"
    /\ UNCHANGED <<httpState, histState, outState, acqState, path, text, candidates, result, segState>>

NextField == CallExtractField \/ CallConverterExtractField

SpecField == InitField /\ [][NextField]_vars

MoneyAlphabet == {"P", "1", "2", ".", ","}
MoneyTexts == SeqsUpTo(MoneyAlphabet, MaxMoneyLen)

MoneyPatterns == {[lit |-> "P", grp |-> "money"], [lit |-> "P", grp |-> "none"]}

InitMoney ==
    /\ path = "extract_money"
    /\ text \in MoneyTexts
    /\ candidates \in {<<>>} \cup {<<p>> : p \in MoneyPatterns}
    /\ pc = "money"
    /\ result = NoResult /\ conv_result = NoResult
    /\ segIdle
    /\ acqIdle
    /\ histIdle
    /\ outIdle
    /\ httpIdle

CallExtractMoney ==
    /\ pc = "money"
    /\ result' = extract_money(candidates, text)
    /\ pc' = "done"
    /\ UNCHANGED <<httpState, histState, outState, acqState, path, text, candidates, conv_result, segState>>

NextMoney == CallExtractMoney

SpecMoney == InitMoney /\ [][NextMoney]_vars

-----------------------------------------------------------------------------
(* Text acquisition: app.py extract_text_from_pdf and pdf_converter.py         *)
(* convert_pdf_to_text.  What the libraries give (a page's text, an exception) *)
(* is chosen by the environment.                                               *)

\* a page's text: none, blank, with something to read, or a vehicle header
PageTexts == {<<>>, <<" ">>, <<"a">>, <<"D1">>}

\* EasyOCR's readtext: (bbox, text, confidence) tokens, confidence in tenths
Confidences == {5, 6, 7}
OcrTokens == [word : {<<"a">>}, conf : Confidences]
OcrResults == SeqsUpTo(OcrTokens, MaxTokens)

\* if confidence > 0.6
ConfidenceThreshold == 6

\* sep.join(parts)
RECURSIVE Join(_, _)
Join(parts, sep) ==
    IF parts = <<>> THEN <<>>
    ELSE IF Len(parts) = 1 THEN parts[1]
    ELSE parts[1] \o sep \o Join(Tail(parts), sep)

\* page_text of the EasyOCR loop: the words kept, in order
RECURSIVE KeptWords(_)
KeptWords(results) ==
    IF results = <<>> THEN <<>>
    ELSE (IF Head(results).conf > ConfidenceThreshold
          THEN <<Head(results).word>> ELSE <<>>) \o KeptWords(Tail(results))

\* results = reader.readtext(img_array) on page p, with what it recognised
Reading(p, results) == [op |-> "easyocr.readtext", page |-> p, results |-> results]

\* NeedsOcr with the test of the text dropped
NeedsOcrAlways(t) == TRUE

\* if not text.strip()
NeedsOcr(t) == Strip(t) = <<>>

InitAcq ==
    /\ path \in {"extract_text_from_pdf", "convert_pdf_to_text"}
    /\ config \in IF path = "extract_text_from_pdf"
                  THEN {"none", "tesseract", "easyocr"} ELSE {"tesseract"}
    /\ npages \in 0..MaxPages
    /\ pc = IF path = "extract_text_from_pdf" THEN "create_temp" ELSE "c_native"
    /\ text = <<>>
    /\ page = 0
    /\ all_text = <<>>
    /\ tmp_file = "none"
    /\ result = NoResult /\ conv_result = NoResult /\ candidates = <<>>
    /\ segIdle
    /\ histIdle
    /\ outIdle
    /\ httpIdle

\* except Exception as e: st.error(...); return ""
OuterExcept ==
    /\ result' = Returned(<<>>)
    /\ pc' = "done"

\* tempfile.NamedTemporaryFile(delete=False, suffix='.pdf')
CreateTemp ==
    /\ pc = "create_temp"
    /\ \E ok \in BOOLEAN :
        IF ok THEN /\ tmp_file' = "exists"
                   /\ pc' = "write_temp"
                   /\ UNCHANGED result
        ELSE OuterExcept /\ UNCHANGED tmp_file
    /\ UNCHANGED <<httpState, histState, outState, path, text, segState, candidates, conv_result,
                   config, npages, page, all_text>>

\* tmp_file.write(pdf_file.read())
WriteTemp ==
    /\ pc = "write_temp"
    /\ \E ok \in BOOLEAN :
        IF ok THEN pc' = "native" /\ UNCHANGED result
        ELSE OuterExcept
    /\ UNCHANGED <<httpState, histState, outState, path, text, segState, candidates, conv_result, acqState>>

\* one turn of the PyPDF2 loop
NativePage ==
    /\ pc = "native"
    /\ page < npages
    /\ \E page_text \in PageTexts :
        text' = IF Strip(page_text) # <<>> THEN text \o page_text \o <<"NL">> ELSE text
    /\ page' = page + 1
    /\ trace' = Append(trace, Call("extract_text", page + 1))
    /\ UNCHANGED <<httpState, native_text, outState, path, pc, segState, fieldState,
                   config, npages, all_text, tmp_file>>

NativeDone ==
    /\ pc = "native"
    /\ page = npages
    /\ pc' = "ocr_decide"
    /\ native_text' = text
    /\ UNCHANGED <<httpState, trace, outState, path, text, segState, fieldState, acqState>>

\* open, PdfReader or extract_text raises: except Exception: st.warning(...)
NativeFail ==
    /\ pc = "native"
    /\ pc' = "ocr_decide"
    /\ native_text' = text
    /\ UNCHANGED <<httpState, trace, outState, path, text, segState, fieldState, acqState>>

\* if not text.strip() and OCR_AVAILABLE: if TESSERACT_AVAILABLE: ...
\* if not text.strip() and not TESSERACT_AVAILABLE: ...
OcrDecide ==
    /\ pc = "ocr_decide"
    /\ pc' = IF NeedsOcr(text) /\ config = "tesseract" THEN "tesseract"
             ELSE IF NeedsOcr(text) /\ config = "easyocr" THEN "easyocr_load"
             ELSE "unlink"
    /\ page' = 0
    /\ all_text' = <<>>
    /\ trace' = IF pc' = "tesseract"
                THEN Append(trace, Call("tesseract.convert_from_path", 0)) ELSE trace
    /\ UNCHANGED <<httpState, native_text, outState, path, text, segState, fieldState,
                   config, npages, tmp_file>>

\* one turn of the pytesseract loop
TesseractPage ==
    /\ pc = "tesseract"
    /\ page < npages
    /\ \E page_text \in PageTexts :
        all_text' = IF Strip(page_text) # <<>> THEN Append(all_text, page_text)
                    ELSE all_text
    /\ page' = page + 1
    /\ trace' = Append(trace, Call("tesseract.image_to_string", page + 1))
    /\ UNCHANGED <<httpState, native_text, outState, path, text, pc, segState, fieldState,
                   config, npages, tmp_file>>

\* text = '\n'.join(all_text)
TesseractDone ==
    /\ pc = "tesseract"
    /\ page = npages
    /\ text' = Join(all_text, <<"NL">>)
    /\ pc' = "unlink"
    /\ UNCHANGED <<httpState, histState, outState, path, segState, fieldState, acqState>>

\* except Exception as tesseract_error: text = ""
TesseractFail ==
    /\ pc = "tesseract"
    /\ text' = <<>>
    /\ pc' = "unlink"
    /\ trace' = Append(trace, Call("tesseract.failed", 0))
    /\ UNCHANGED <<httpState, native_text, outState, path, segState, fieldState, acqState>>

\* reader = load_easyocr(); if reader: ...
EasyOcrLoad ==
    /\ pc = "easyocr_load"
    /\ \E reader \in BOOLEAN :
        /\ pc' = IF reader THEN "easyocr" ELSE "unlink"
        /\ trace' = IF reader
                    THEN Append(trace, Call("easyocr.convert_from_path", 0)) ELSE trace
    /\ UNCHANGED <<httpState, native_text, outState, path, text, segState, fieldState, acqState>>

\* one turn of the EasyOCR loop
EasyOcrPage ==
    /\ pc = "easyocr"
    /\ page < npages
    /\ \E results \in OcrResults :
        LET page_text == KeptWords(results)
        IN /\ all_text' = IF page_text # <<>>
                          THEN Append(all_text, Join(page_text, <<" ">>))
                          ELSE all_text
           /\ trace' = Append(trace, Reading(page + 1, results))
    /\ page' = page + 1
    /\ UNCHANGED <<httpState, native_text, outState, path, text, pc, segState, fieldState,
                   config, npages, tmp_file>>

EasyOcrDone ==
    /\ pc = "easyocr"
    /\ page = npages
    /\ text' = Join(all_text, <<"NL">>)
    /\ pc' = "unlink"
    /\ UNCHANGED <<httpState, histState, outState, path, segState, fieldState, acqState>>

\* except Exception as easyocr_error: st.error(...)
EasyOcrFail ==
    /\ pc = "easyocr"
    /\ pc' = "unlink"
    /\ trace' = Append(trace, Call("easyocr.failed", 0))
    /\ UNCHANGED <<httpState, native_text, outState, path, text, segState, fieldState, acqState>>

\* os.unlink(tmp_file_path); return text
Unlink ==
    /\ pc = "unlink"
    /\ \E ok \in BOOLEAN :
        IF ok THEN /\ tmp_file' = "removed"
                   /\ result' = Returned(text)
                   /\ pc' = "done"
        ELSE OuterExcept /\ UNCHANGED tmp_file
    /\ UNCHANGED <<httpState, histState, outState, path, text, segState, candidates, conv_result,
                   config, npages, page, all_text>>

\* convert_pdf_to_text: one turn of the PyPDF2 loop,
\*   if page.extract_text(): text += page.extract_text() + "\n"
\* which calls extract_text a second time on a page that has text
ConvNativePage ==
    /\ pc = "c_native"
    /\ page < npages
    /\ \E page_text \in PageTexts :
        IF page_text # <<>>
        THEN /\ text' = text \o page_text \o <<"NL">>
             /\ trace' = trace \o <<Call("extract_text", page + 1),
                                     Call("extract_text", page + 1)>>
        ELSE /\ text' = text
             /\ trace' = Append(trace, Call("extract_text", page + 1))
    /\ page' = page + 1
    /\ UNCHANGED <<httpState, native_text, outState, path, pc, segState, fieldState,
                   config, npages, all_text, tmp_file>>

ConvNativeDone ==
    /\ pc = "c_native"
    /\ page = npages
    /\ pc' = "c_ocr_decide"
    /\ native_text' = text
    /\ UNCHANGED <<httpState, trace, outState, path, text, segState, fieldState, acqState>>

\* open, PdfReader or extract_text raises: except Exception as e: print(...)
ConvNativeFail ==
    /\ pc = "c_native"
    /\ pc' = "c_ocr_decide"
    /\ native_text' = text
    /\ UNCHANGED <<httpState, trace, outState, path, text, segState, fieldState, acqState>>

\* if not text.strip(): ... ; return text
ConvOcrDecide ==
    /\ pc = "c_ocr_decide"
    /\ IF NeedsOcr(text)
       THEN /\ pc' = "c_ocr" /\ page' = 0 /\ UNCHANGED result
            /\ trace' = Append(trace, Call("tesseract.convert_from_path", 0))
       ELSE pc' = "done" /\ result' = Returned(text) /\ UNCHANGED <<page, trace>>
    /\ UNCHANGED <<httpState, native_text, outState, path, text, segState, candidates, conv_result,
                   config, npages, all_text, tmp_file>>

\* text += pytesseract.image_to_string(img, lang="por") + "\n"
ConvOcrPage ==
    /\ pc = "c_ocr"
    /\ page < npages
    /\ \E page_text \in PageTexts : text' = text \o page_text \o <<"NL">>
    /\ page' = page + 1
    /\ trace' = Append(trace, Call("tesseract.image_to_string", page + 1))
    /\ UNCHANGED <<httpState, native_text, outState, path, pc, segState, fieldState,
                   config, npages, all_text, tmp_file>>

ConvOcrDone ==
    /\ pc = "c_ocr"
    /\ page = npages
    /\ result' = Returned(text)
    /\ pc' = "done"
    /\ UNCHANGED <<httpState, histState, outState, path, text, segState, candidates, conv_result, acqState>>

\* convert_from_path or image_to_string raises: nothing catches it
ConvOcrFail ==
    /\ pc = "c_ocr"
    /\ result' = Raised("Exception")
    /\ pc' = "done"
    /\ UNCHANGED <<httpState, histState, outState, path, text, segState, candidates, conv_result, acqState>>

\* main: text = extract_text_from_pdf(uploaded_file); the run goes on as the
\* dashboard's, with the text the call returned
MainProcess ==
    /\ path = "extract_text_from_pdf"
    /\ pc = "done"
    /\ path' = "dashboard"
    /\ text' = result.value
    /\ pc' = "main"
    /\ UNCHANGED <<httpState, histState, outState, segState, fieldState, acqState>>

NextAcq ==
    \/ CreateTemp \/ WriteTemp
    \/ NativePage \/ NativeDone \/ NativeFail
    \/ OcrDecide
    \/ TesseractPage \/ TesseractDone \/ TesseractFail
    \/ EasyOcrLoad \/ EasyOcrPage \/ EasyOcrDone \/ EasyOcrFail
    \/ Unlink
    \/ ConvNativePage \/ ConvNativeDone \/ ConvNativeFail \/ ConvOcrDecide
    \/ ConvOcrPage \/ ConvOcrDone \/ ConvOcrFail
    \/ MainProcess \/ MainStart
    \/ Strategy1 \/ Strategy2 \/ Strategy3 \/ Strategy4 \/ Return
    \/ ParseVehicle \/ LoopDone \/ Export

SpecAcq == InitAcq /\ [][NextAcq]_vars

-----------------------------------------------------------------------------
(* The /upload route: upload_file, save_file, parse_tokio_text and            *)
(* save_dataframe_to_excel, for two requests the server may interleave        *)

Requests == {1, 2}

\* the filename of the uploaded part: empty, plain, or one that spells a
\* policy number
Filenames == {<<>>, <<"a">>, <<"APO+">>}

\* the text of the uploaded PDF
UploadTexts == {<<"PLA+">>, <<"APO+", "PLA+">>}

\* UPLOAD_FOLDER = "uploads"; os.path.join(UPLOAD_FOLDER, file.filename)
UploadPath(filename) == <<"uploads/">> \o filename

\* save_dataframe_to_excel's default output_path
OutputPath == <<"output.xlsx">>

DiskPaths == {UploadPath(f) : f \in Filenames} \cup {OutputPath}

\* the header dict of parse_tokio_text: the key whose label is a unit
parse_tokio_header(s) ==
    [f \in {"APOLICE"} |->
        converter_extract_field(<<[lit |-> "APO+", grp |-> "self"]>>, s).value]

\* save_dataframe_to_excel: the header sheet and the vehicle sheet
save_dataframe_to_excel(header, df) ==
    [sheet \in {"Dados Gerais", "Veiculos"} |->
        IF sheet = "Dados Gerais" THEN <<header>> ELSE df]

Response(status, body, excel_path) ==
    [status |-> status, body |-> body, excel_path |-> excel_path]

\* FilenameMissing with the test dropped
FilenameMissingNever(filename) == FALSE

\* if file.filename == ""
FilenameMissing(filename) == filename = <<>>

NewRequest(has_file, filename, content) ==
    [has_file |-> has_file, filename |-> filename, content |-> content,
     pc |-> "start", calls |-> <<>>, fault |-> "none",
     parser_arg |-> <<"none">>, header |-> <<>>, rows |-> <<>>, sheets |-> <<>>,
     responses |-> <<>>]

InitUpload ==
    /\ path = "upload"
    /\ text = <<>>
    /\ pc = "serving"
    /\ requests \in [Requests ->
            {NewRequest(FALSE, <<>>, <<>>)}
              \cup {NewRequest(TRUE, f, c) : f \in Filenames, c \in UploadTexts}]
    /\ disk = [p \in DiskPaths |-> 0]
    /\ segIdle
    /\ fieldIdle
    /\ acqIdle
    /\ histIdle
    /\ outIdle

\* the request's handler answers and ends
Respond(r, req, response) ==
    requests' = [requests EXCEPT ![r] =
                    [req EXCEPT !.responses = Append(@, response), !.pc = "done"]]

\* except Exception as e: return jsonify({"error": str(e)}), 500
Fault(r, req, step, message) ==
    Respond(r, [req EXCEPT !.fault = step], Response(500, message, <<>>))

\* the two 400 answers, or on to the try block
CheckRequest(r) ==
    LET req == requests[r] IN
    /\ req.pc = "start"
    /\ IF ~req.has_file
       THEN Respond(r, req, Response(400, "Nenhum arquivo enviado", <<>>))
       ELSE IF FilenameMissing(req.filename)
       THEN Respond(r, req, Response(400, "Nome do arquivo vazio", <<>>))
       ELSE requests' = [requests EXCEPT ![r].pc = "save"]
    /\ UNCHANGED <<disk, path, text, pc, segState, fieldState, acqState, histState, outState>>

\* file_path = save_file(file): the bytes go to uploads/<filename>, or the
\* write fails and save_file raises "Erro ao salvar arquivo: ..."
SaveFile(r) ==
    LET req == [requests[r] EXCEPT !.calls = Append(@, "save_file")] IN
    /\ requests[r].pc = "save"
    /\ \E ok \in BOOLEAN :
        IF ok
        THEN /\ disk' = [disk EXCEPT ![UploadPath(req.filename)] = r]
             /\ requests' = [requests EXCEPT ![r] = [req EXCEPT !.pc = "parse"]]
        ELSE /\ Fault(r, req, "save_file", "Erro ao salvar arquivo")
             /\ UNCHANGED disk
    /\ UNCHANGED <<path, text, pc, segState, fieldState, acqState, histState, outState>>

\* dados_header, df = parse_tokio_text(file_path)
ParseUpload(r) ==
    LET req == [requests[r] EXCEPT !.calls = Append(@, "parse_tokio_text")]
        file_path == UploadPath(req.filename)
    IN
    /\ requests[r].pc = "parse"
    /\ \E ok \in BOOLEAN :
        IF ok
        THEN requests' = [requests EXCEPT ![r] =
                [req EXCEPT !.parser_arg = file_path,
                            !.header = parse_tokio_header(file_path),
                            !.rows = parse_tokio_text(file_path),
                            !.pc = "export"]]
        ELSE Fault(r, req, "parse_tokio_text", "parse fault")
    /\ UNCHANGED <<disk, path, text, pc, segState, fieldState, acqState, histState, outState>>

\* excel_path = save_dataframe_to_excel(dados_header, df), then the 200 answer
SaveExcel(r) ==
    LET req == [requests[r] EXCEPT !.calls = Append(@, "save_dataframe_to_excel")] IN
    /\ requests[r].pc = "export"
    /\ \E ok \in BOOLEAN :
        IF ok
        THEN /\ disk' = [disk EXCEPT ![OutputPath] = r]
             /\ Respond(r, [req EXCEPT !.sheets = save_dataframe_to_excel(req.header, req.rows)],
                        Response(200, "Arquivo processado com sucesso", OutputPath))
        ELSE /\ Fault(r, req, "save_dataframe_to_excel", "export fault")
             /\ UNCHANGED disk
    /\ UNCHANGED <<path, text, pc, segState, fieldState, acqState, histState, outState>>

NextUpload ==
    \E r \in Requests : CheckRequest(r) \/ SaveFile(r) \/ ParseUpload(r) \/ SaveExcel(r)

SpecUpload == InitUpload /\ [][NextUpload]_vars

-----------------------------------------------------------------------------
(* Claims about extract_vehicle_sections *)

\* the segmenter has returned
Segmented == pc = "return"

Min(S) == CHOOSE x \in S : \A y \in S : x <= y

\* the k-th index of a unit of S in t
Occurrence(t, S, k) ==
    CHOOSE i \in Occurrences(t, S) :
        Cardinality({j \in Occurrences(t, S) : j < i}) = k - 1

\* the text after index i up to the next unit of S or the end of t
TextUpTo(t, i, S) ==
    SubSeq(t, i + 1, Min({j \in (i + 1)..Len(t) : t[j] \in S} \cup {Len(t) + 1}) - 1)

NumberedHeaders == {"D1", "D2"}
PrimaryMarkers == {"D1", "D2", "D-", "I1"}

\* how many of the four strategies have been tried at this point
StrategiesTried ==
    CASE pc = "strategy2" -> 1
      [] pc = "strategy3" -> 2
      [] pc = "strategy4" -> 3
      [] pc \in {"return", "vehicle_loop", "export"} -> 4
      [] pc \in {"done", "exported"} /\ path \in {"function", "dashboard"} -> 4
      [] OTHER -> 0

StrategySpans(k) ==
    CASE k = 1 -> DescricaoSpans(text)
      [] k = 2 -> CepSpans(text)
      [] k = 3 -> FabSpans(text)
      [] k = 4 -> PlacaSpans(text)

\* C1: the strategies are tried in the order header, postal code,
\* manufacturer, plate; at every point the list is exactly the spans of the
\* first strategy tried so far that yields a span, and no other strategy has
\* contributed to it.
C1_FirstStrategyWins ==
    LET W == {k \in 1..StrategiesTried : StrategySpans(k) # <<>>}
    IN IF W = {} THEN vehicles = <<>> /\ used = {}
       ELSE vehicles = StrategySpans(Min(W)) /\ used = {Min(W)}

\* the postal-code strategy produced the result although a later strategy
\* (manufacturer) also finds a span in the text
C1_Witness ==
    /\ Segmented
    /\ used = {2}
    /\ FabSpans(text) # <<>>
    /\ Len(vehicles) = Len(CepSpans(text))

\* C2 as stated: K numbered headers give K spans in document order, the i-th
\* with the i-th header's number and with the text after that header up to
\* the next numbered header, the end marker or the end of the text.
C2_Original ==
    Segmented =>
        LET K == Cardinality(Occurrences(text, NumberedHeaders))
        IN K > 0 =>
            /\ Len(vehicles) = K
            /\ \A i \in 1..K :
                LET h == Occurrence(text, NumberedHeaders, i)
                IN /\ vehicles[i].item = HeaderNumber(text[h])
                   /\ vehicles[i].content
                        = TextUpTo(text, h, NumberedHeaders \cup {"END"})

\* C2 amended: the same, the content being that text with its leading and
\* trailing whitespace removed.
C2_HeaderSpans ==
    Segmented =>
        LET K == Cardinality(Occurrences(text, NumberedHeaders))
        IN K > 0 =>
            /\ Len(vehicles) = K
            /\ \A i \in 1..K :
                LET h == Occurrence(text, NumberedHeaders, i)
                IN /\ vehicles[i].item = HeaderNumber(text[h])
                   /\ vehicles[i].content
                        = Strip(TextUpTo(text, h, NumberedHeaders \cup {"END"}))

\* headers numbered 1 and 2, the first with content: two spans "1" and "2"
C2_Witness ==
    /\ Segmented
    /\ Cardinality(Occurrences(text, NumberedHeaders)) = 2
    /\ Len(vehicles) = 2
    /\ vehicles[1].item = <<"1">> /\ vehicles[2].item = <<"2">>
    /\ vehicles[1].content # <<>>

\* C3 as stated: without a primary marker, N occurrences of the postal-code
\* field give N spans, produced by the postal-code strategy.
C3_Original ==
    Segmented =>
        LET N == Cardinality(Occurrences(text, {"CEP+", "CEP-"}))
        IN Occurrences(text, PrimaryMarkers) = {} =>
            /\ Len(vehicles) = N
            /\ N > 0 => used = {2}

\* C4 as stated: a span's item index is the header's number when the header
\* carries one and its 1-based position otherwise, and its content is the
\* captured text (surrounding whitespace aside), whatever the match's shape.
C4_ItemIndex ==
    (Segmented /\ used = {1}) =>
        LET sections == DescricaoSections(text)
        IN \A j \in 1..Len(vehicles) :
            IF IsTuple(sections[j])
            THEN /\ vehicles[j].item = sections[j][1]
                 /\ vehicles[j].content = Strip(sections[j][2])
            ELSE /\ vehicles[j].item = Str(j)
                 /\ vehicles[j].content = Strip(sections[j][1])

-----------------------------------------------------------------------------
(* Claims about the field extractors *)

\* the candidates of the list that match the text
Matching == {k \in 1..Len(candidates) : Search(candidates[k], text).found}

\* the first matching candidate's value: its group if it has one, else the
\* whole match
FirstMatchValue ==
    LET m == Search(candidates[Min(Matching)], text)
    IN IF m.groups # <<>> THEN m.groups[1] ELSE m.full

\* the same for pdf_converter.py's extract_field, which searches without
\* re.MULTILINE
ConverterMatching ==
    {k \in 1..Len(candidates) : SearchNoMultiline(candidates[k], text).found}

ConverterFirstMatchValue ==
    LET m == SearchNoMultiline(candidates[Min(ConverterMatching)], text)
    IN IF m.groups # <<>> THEN m.groups[1] ELSE m.full

\* C5: extract_field (app.py and pdf_converter.py) returns the value of the
\* first candidate in list order that matches, stripped and with every run
\* of whitespace replaced by one space, and the empty string when no
\* candidate matches.  (Calls that raise are the subject of C6.)
C5_FirstCandidate ==
    (path = "extract_field" /\ pc = "done" /\ ~conv_result.raised) =>
        /\ result = Returned(IF Matching = {} THEN <<>>
                              ELSE Collapse(Strip(FirstMatchValue)))
        /\ conv_result = Returned(IF ConverterMatching = {} THEN <<>>
                                   ELSE Collapse(Strip(ConverterFirstMatchValue)))

\* C6: no field lookup raises, whatever the text and the candidate list.
C6_NeverRaises == ~result.raised /\ ~conv_result.raised

\* C7: extract_money returns the captured string as a number, thousands
\* periods removed and the decimal comma turned into a period, and returns
\* the captured string itself, unchanged, when that cannot be parsed.
C7_MoneyNormalization ==
    (path = "extract_money" /\ pc = "done" /\ ~result.raised /\ Matching # {}) =>
        LET captured == FirstMatchValue
        IN result.value = IF ParsesAsFloat(Normalize(captured))
                          THEN FloatOf(Normalize(captured))
                          ELSE PyStr(captured)

-----------------------------------------------------------------------------
(* Claims about the records and about text acquisition *)

\* C8: for every processed document there are as many vehicle records as
\* spans of the segmentation, the i-th record carries the i-th span's item
\* index, and all records have the same field names.
C8_RecordPerSpan ==
    (pc = "done" /\ path \in {"dashboard", "http"}) =>
        /\ Len(all_vehicles_data) = Len(vehicles)
        /\ \A i \in 1..Len(vehicles) : all_vehicles_data[i]["Item"] = vehicles[i].item
        /\ \A i, j \in 1..Len(all_vehicles_data) :
              DOMAIN all_vehicles_data[i] = DOMAIN all_vehicles_data[j]

\* C9: text acquisition never raises; extract_text_from_pdf and
\* convert_pdf_to_text both return a string.
C9_AcquisitionNeverRaises ==
    (path \in {"extract_text_from_pdf", "convert_pdf_to_text"} /\ pc = "done") =>
        ~result.raised

\* C10: when extract_text_from_pdf returns, a temporary file it created no
\* longer exists.
C10_TempFileRemoved ==
    (path = "extract_text_from_pdf" /\ pc = "done" /\ tmp_file # "none") =>
        tmp_file = "removed"

-----------------------------------------------------------------------------
(* Claims about when OCR runs *)

Acquiring == path \in {"extract_text_from_pdf", "convert_pdf_to_text"}

OcrOps ==
    {"tesseract.convert_from_path", "tesseract.image_to_string",
     "easyocr.convert_from_path", "easyocr.readtext"}

\* the OCR calls made so far
OcrCalls == {i \in 1..Len(trace) : trace[i].op \in OcrOps}

NativeEnded == native_text # <<"pending">>

\* the call ended at its "return text" (a fault that reaches the outer handler
\* of extract_text_from_pdf gives the empty string instead, whatever was read)
ReturnedText ==
    /\ Acquiring /\ pc = "done" /\ ~result.raised
    /\ path = "extract_text_from_pdf" => tmp_file = "removed"

-----------------------------------------------------------------------------
(* Claims about the dashboard's handling of the acquired text *)

\* the stages of main that have run
StageCalls(op) == {i \in 1..Len(trace) : trace[i].op = op}

NothingProcessed ==
    /\ StageCalls("parse_header_data") = {}
    /\ StageCalls("extract_vehicle_sections") = {}
    /\ StageCalls("create_excel_file") = {}
    /\ dados_header = <<>> /\ vehicles = <<>> /\ workbook = NoWorkbook

\* C12: extract_text_from_pdf returns the empty text when native extraction
\* gave nothing and no OCR backend is available or OCR kept no page; and once
\* main has tested a text that is empty or blank, it has reported an error and
\* stopped: no header parsing, no segmentation, no export.
C12_EmptyTextTerminal ==
    /\ (path = "extract_text_from_pdf" /\ pc = "done"
            /\ (~NativeEnded \/ Strip(native_text) = <<>>)
            /\ (config = "none" \/ all_text = <<>>))
          => result = Returned(<<>>)
    /\ (path = "dashboard" /\ pc # "main" /\ Strip(text) = <<>>)
          => pc = "failed" /\ report = "error" /\ NothingProcessed

\* a two-page scan with no OCR backend: empty text, reported as an error
C12_Witness ==
    /\ path = "dashboard" /\ pc = "failed" /\ report = "error"
    /\ config = "none" /\ npages = 2
    /\ NativeEnded /\ text = <<>>
    /\ NothingProcessed

-----------------------------------------------------------------------------
(* Claims about the /upload route *)

Uploading == path = "upload"

Answered(r) == requests[r].pc = "done"

UploadSteps == <<"save_file", "parse_tokio_text", "save_dataframe_to_excel">>

\* C13: a request has no response while it is handled and exactly one when
\* the handler has ended; that response is 400 with an error exactly when the
\* request has no file part or an empty filename, and then nothing was saved,
\* parsed or exported; it is 500 with the fault's text exactly when a step
\* raised; otherwise it is 200 with the message and the output path, all
\* three steps having run.
C13_UploadStatus ==
    Uploading => \A r \in Requests :
        LET req == requests[r]
            rejected == ~req.has_file \/ req.filename = <<>>
        IN /\ Len(req.responses) = IF Answered(r) THEN 1 ELSE 0
           /\ Answered(r) =>
                LET resp == req.responses[1] IN
                /\ resp.status = (IF rejected THEN 400
                                  ELSE IF req.fault # "none" THEN 500 ELSE 200)
                /\ resp.status = 400 =>
                      /\ req.calls = <<>>
                      /\ resp.body = (IF req.has_file THEN "Nome do arquivo vazio"
                                      ELSE "Nenhum arquivo enviado")
                /\ resp.status = 500 =>
                      /\ req.fault = req.calls[Len(req.calls)]
                      /\ resp.body # "Arquivo processado com sucesso"
                /\ resp.status = 200 =>
                      /\ req.calls = UploadSteps
                      /\ resp.body = "Arquivo processado com sucesso"
                      /\ resp.excel_path = OutputPath

\* one request rejected for its empty filename, the other answered 200
C13_Witness ==
    /\ Uploading
    /\ Answered(1) /\ Answered(2)
    /\ requests[1].has_file /\ requests[1].filename = <<>>
    /\ requests[1].responses[1].status = 400
    /\ requests[2].responses[1].status = 200

\* the steps a request's handler has called
Called(r, step) == \E i \in 1..Len(requests[r].calls) : requests[r].calls[i] = step

\* C14: for an accepted upload, text acquisition runs on the uploaded PDF
\* before parsing, and the text handed to the policy parser is the text of
\* that PDF.
C14_UploadAcquiresText ==
    Uploading => \A r \in Requests :
        Called(r, "parse_tokio_text") /\ requests[r].fault # "parse_tokio_text" =>
            /\ Called(r, "convert_pdf_to_text")
            /\ requests[r].parser_arg = requests[r].content

\* the name contains the number
NamedWith(name, number) ==
    \E i \in 1..(Len(name) - Len(number) + 1) :
        SubSeq(name, i, i + Len(number) - 1) = number

PlaceholderNames == {<<"tokio_marine_apolice_", "sem_numero", ".xlsx">>, OutputPath}

\* the workbook's name agrees with the policy number of the header
NamedAfter(name, number) ==
    IF Strip(number) # <<>> THEN NamedWith(name, number)
    ELSE name \in PlaceholderNames

\* C15: the workbook is named with the extracted policy number whenever the
\* header's policy-number field is non-empty and with the fixed placeholder
\* only when it is empty or blank, for the dashboard's download and for the
\* file the HTTP API writes.
C15_WorkbookName ==
    /\ (path = "dashboard" /\ workbook # NoWorkbook)
          => NamedAfter(workbook.name, dados_header["Apolice"])
    /\ Uploading => \A r \in Requests :
          (Answered(r) /\ requests[r].responses[1].status = 200)
              => NamedAfter(requests[r].responses[1].excel_path,
                            requests[r].header["APOLICE"])

\* C16: conversions never overwrite each other's stored input or output,
\* also when both uploads carry the same filename: while a request is being
\* converted the file it stored still holds its own bytes, and the output
\* path a request was answered with holds its own workbook.
C16_NoSharedFiles ==
    Uploading => \A r \in Requests :
        /\ requests[r].pc \in {"parse", "export"}
              => disk[UploadPath(requests[r].filename)] = r
        /\ (Answered(r) /\ requests[r].responses[1].status = 200)
              => disk[requests[r].responses[1].excel_path] = r

-----------------------------------------------------------------------------
(* Claims about empty results and the exporter *)

\* the functions have been applied to the text on their own
Exported == path = "function" /\ pc = "exported"

\* C17: for the empty text, segmentation gives no vehicle, every header field
\* is the empty string, and the workbook has a vehicle sheet with no rows.
C17_EmptyText ==
    (Exported /\ text = <<>>) =>
        /\ vehicles = <<>>
        /\ \A f \in DOMAIN dados_header : dados_header[f] = <<>>
        /\ "Todos os Veiculos" \in DOMAIN workbook.sheets
        /\ workbook.sheets["Todos os Veiculos"] = <<>>

NoStrategyMatches == \A k \in 1..4 : StrategySpans(k) = <<>>

\* C18: when none of the four strategies finds a span the segmenter returns
\* the empty list, and main then reports a warning (not an error), builds no
\* record and no workbook.
C18_NoVehiclesIsValid ==
    /\ (StrategiesTried = 4 /\ NoStrategyMatches) => vehicles = <<>>
    /\ (path = "dashboard" /\ pc = "done" /\ vehicles = <<>>)
          => report = "warning" /\ all_vehicles_data = <<>> /\ workbook = NoWorkbook

\* a text with characters but no marker: no vehicle, a warning
C18_Witness ==
    /\ path = "dashboard" /\ pc = "done"
    /\ Len(text) = MaxTextLen /\ NoStrategyMatches
    /\ vehicles = <<>> /\ report = "warning"

\* a workbook has been written by create_excel_file
Written == Exported \/ (path = "dashboard" /\ workbook # NoWorkbook)

\* C19: for an empty record list create_excel_file gives the header sheet
\* only; for a non-empty list the vehicle sheet has one row per record, in
\* the order of the list.
C19_ExcelSheets ==
    Written =>
        /\ workbook.sheets["Dados Gerais"] = <<dados_header>>
        /\ IF all_vehicles_data = <<>>
           THEN DOMAIN workbook.sheets = {"Dados Gerais"}
           ELSE /\ Len(workbook.sheets["Todos os Veiculos"]) = Len(all_vehicles_data)
                /\ \A i \in 1..Len(all_vehicles_data) :
                      workbook.sheets["Todos os Veiculos"][i] = all_vehicles_data[i]

\* the exporter called with no record: a workbook with one sheet
C19_Witness ==
    /\ Exported
    /\ all_vehicles_data = <<>>
    /\ text # <<>>
    /\ DOMAIN workbook.sheets = {"Dados Gerais"}

-----------------------------------------------------------------------------
(* Claims about retries *)

\* how often a call was made on a page
Times(op, p) ==
    Cardinality({i \in 1..Len(trace) : trace[i].op = op /\ trace[i].page = p})

Made(op) == \E i \in 1..Len(trace) : trace[i].op = op

\* C20: within one text-acquisition call native extraction is attempted at
\* most once per page, at most one OCR backend runs, once per page, and when
\* Tesseract fails EasyOCR is not attempted and the call returns the empty
\* text.
C20_NoRetries ==
    /\ \A p \in 1..npages :
          /\ Times("extract_text", p) <= 1
          /\ Times("tesseract.image_to_string", p) + Times("easyocr.readtext", p) <= 1
    /\ ~(Made("tesseract.convert_from_path") /\ Made("easyocr.convert_from_path"))
    /\ Times("tesseract.convert_from_path", 0) + Times("easyocr.convert_from_path", 0) <= 1
    /\ (Made("tesseract.failed") /\ Acquiring /\ pc = "done") => result = Returned(<<>>)

-----------------------------------------------------------------------------
(* Claims about the confidence filter of the EasyOCR path *)

\* what readtext recognised, page by page
Readings == SelectSeq(trace, LAMBDA c : c.op = "easyocr.readtext")

\* the words of a page whose confidence is not below the threshold
RECURSIVE NotBelow(_)
NotBelow(results) ==
    IF results = <<>> THEN <<>>
    ELSE (IF Head(results).conf >= ConfidenceThreshold
          THEN <<Head(results).word>> ELSE <<>>) \o NotBelow(Tail(results))

\* one text per page that has such a word: its words joined by single spaces
RECURSIVE Surviving(_)
Surviving(readings) ==
    IF readings = <<>> THEN <<>>
    ELSE LET words == NotBelow(Head(readings).results)
         IN (IF words # <<>> THEN <<Join(words, <<" ">>)>> ELSE <<>>)
            \o Surviving(Tail(readings))

EasyOcrPath == Acquiring /\ Made("easyocr.convert_from_path")

\* the EasyOCR loop ran to its end
EasyOcrEnded == EasyOcrPath /\ pc \in {"unlink", "done"} /\ ~Made("easyocr.failed")

\* C21: on the EasyOCR path a page's text is the recognised tokens whose
\* confidence is not below the threshold (0.6), in recognition order joined by
\* single spaces; a page with no such token contributes nothing; the text is
\* the page texts in page order separated by line breaks.
C21_ConfidenceFilter ==
    /\ EasyOcrPath => all_text = Surviving(Readings)
    /\ EasyOcrEnded => text = Join(Surviving(Readings), <<"NL">>)
    /\ (EasyOcrEnded /\ ReturnedText) => result = Returned(text)

-----------------------------------------------------------------------------
(* Claims about the empty string as a field value *)

\* the value a candidate gives on the text: its group if it has one, else the
\* whole match
ValueOf(k) ==
    LET m == Search(candidates[k], text)
    IN IF m.groups # <<>> THEN m.groups[1] ELSE m.full

\* app.py's extract_field was called
FieldCalled == path = "extract_field" /\ pc # "app"

\* C22: app.py's extract_field gives the empty string both when no candidate
\* matches and when the first matching candidate captures only whitespace;
\* in the second case it returns at once, whatever the candidates after it
\* would give, and extract_simple hands the same empty string on.
C22_EmptyIsNotOnlyNotFound ==
    FieldCalled =>
        /\ Matching = {} => result = Returned(<<>>)
        /\ (Matching # {} /\ Strip(FirstMatchValue) = <<>>) =>
              /\ result = Returned(<<>>)
              /\ extract_simple(candidates, text) = <<>>

\* the first candidate captured blanks only, the fallback after it matches
\* with a value, and the result is empty
C22_Witness ==
    /\ FieldCalled
    /\ Len(candidates) = 2
    /\ Matching = {1, 2}
    /\ Search(candidates[1], text).groups # <<>>
    /\ ValueOf(1) # <<>>
    /\ \A k \in 1..Len(ValueOf(1)) : IsSpace(ValueOf(1)[k])
    /\ Strip(ValueOf(2)) # <<>>
    /\ result = Returned(<<>>)

=============================================================================
